---------------------------- MODULE Spec2Model ----------------------------
(***************************************************************************)
(* A model of the news indexing package: the document extractor            *)
(* (iter_jsons_in_path), the batch loader (bulk_index), the query engine   *)
(* (search_boolean_es) and the result presenter (display_search_results).  *)
(*                                                                         *)
(* Python values are tagged records [t, v]: t is the Python type, v the    *)
(* payload.  A string is a sequence of tokens, so that concatenation and   *)
(* slicing are sequence operations.  A dict is a function from keys to     *)
(* values; a key the dict lacks is a key outside its DOMAIN.               *)
(***************************************************************************)
EXTENDS Integers, Sequences, FiniteSets, TLC

VARIABLES
    source,       \* the path handed to iter_jsons_in_path (never changes)
    pos,          \* generator position: entries of the listing already visited
    yielded,      \* pairs the generator has yielded in this enumeration
    diags,        \* diagnostics the generator has printed in this enumeration
    pc,           \* position of the ingestion caller
    batch_size,   \* bulk_index: batch_size of the current run
    actions,      \* bulk_index: the accumulator
    total,        \* bulk_index: the running total
    submissions,  \* helpers.bulk calls of the current run, in order
    index,        \* the external index: id -> document
    index0,       \* the index when the current run started
    runs,         \* bulk_index runs started so far
    once,         \* the index and the pairs of the first run that returned, or NoIndex
    spc,          \* position of the search caller
    service,      \* what es_client.search will do: raise, or answer
    query_result, \* what search_boolean_es returned
    search_diag,  \* diagnostics search_boolean_es printed
    printed,      \* what display_search_results printed
    display_raised \* whether display_search_results raised

ingest_vars == <<source, pos, yielded, diags, pc, batch_size, actions, total,
                 submissions, index, index0, runs, once>>
search_vars == <<spc, service, query_result, search_diag, printed, display_raised>>
vars == <<ingest_vars, search_vars>>

-----------------------------------------------------------------------------
(* Bounds of the model *)

\* files in a directory, members in an archive (extraction)
MaxFiles == 3
\* items of the stream a load consumes
MaxItems == 5
\* the largest batch_size of a load
MaxBatch == 2
\* bulk_index runs over the same source
MaxRuns == 2
\* hits in a result set
MaxHits == 2

-----------------------------------------------------------------------------
(* Python values *)

None == [t |-> "none", v |-> <<>>]
Str(s) == [t |-> "str", v |-> s]
Dict(f) == [t |-> "dict", v |-> f]
List(s) == [t |-> "list", v |-> s]
Num(n) == [t |-> "int", v |-> n]
EmptyDict == Dict(<<>>)

\* bool(x): None, "", {}, [] and 0 are falsy
Truthy(x) ==
    CASE x.t = "none" -> FALSE
      [] x.t = "str"  -> x.v # <<>>
      [] x.t = "dict" -> DOMAIN x.v # {}
      [] x.t = "list" -> x.v # <<>>
      [] x.t = "int"  -> x.v # 0

\* whether x has a .get method
HasGet(x) == x.t = "dict"

\* d.get(key, default) of a dict d
Get(d, key, default) == IF key \in DOMAIN d.v THEN d.v[key] ELSE default

\* the result of an expression that may raise
Ok(x) == [ok |-> TRUE, val |-> x]
Raise == [ok |-> FALSE, val |-> None]

-----------------------------------------------------------------------------
(* The document extractor: iter_jsons_in_path *)

\* the keys a document copies from the item
DocFields == {"title", "text", "author", "published", "language",
              "sentiment", "categories", "url"}

\* the bytes of an item that cannot be read, or are not JSON
Corrupt == [t |-> "corrupt", v |-> <<>>]

\* open, read, decode, json.loads: the parsed value, or an exception
Load(content) == IF content.t = "corrupt" THEN Raise ELSE Ok(content)

\* DocId with the two lookups swapped: the thread is asked for the id first
DocIdThreadFirst(data, fallback) ==
    IF ~HasGet(data) THEN Raise
    ELSE LET th == Get(data, "thread", EmptyDict) IN
         IF ~HasGet(th) THEN Raise
         ELSE LET b == Get(th, "uuid", None)
                  a == Get(data, "uuid", None) IN
              IF Truthy(b) THEN Ok(b) ELSE IF Truthy(a) THEN Ok(a) ELSE Ok(fallback)

\* data.get('uuid') or data.get('thread', {}).get('uuid') or <fallback>
DocId(data, fallback) ==
    IF ~HasGet(data) THEN Raise
    ELSE LET a == Get(data, "uuid", None) IN
         IF Truthy(a) THEN Ok(a)
         ELSE LET th == Get(data, "thread", EmptyDict) IN
              IF ~HasGet(th) THEN Raise
              ELSE LET b == Get(th, "uuid", None) IN
                   IF Truthy(b) THEN Ok(b) ELSE Ok(fallback)

\* the document built from the parsed item
Project(data, doc_id) ==
    Dict([k \in DocFields \cup {"uuid"} |->
            IF k = "uuid" THEN doc_id ELSE Get(data, k, None)])

\* the body of the try block of one item: the pair it yields, or an exception
ProcessItem(content, fallback) ==
    LET data == Load(content) IN
    IF ~data.ok THEN Raise
    ELSE LET doc_id == DocId(data.val, fallback) IN
         IF ~doc_id.ok THEN Raise
         ELSE Ok([id |-> doc_id.val, doc |-> Project(data.val, doc_id.val)])

\* p.name of a file found under a directory
BaseName(name) == <<name.stem, name.ext>>

\* the name of an archive member, as zf.namelist() gives it
MemberName(name) ==
    IF name.parent = "" THEN <<name.stem, name.ext>>
    ELSE <<name.parent, "/", name.stem, name.ext>>

\* path.name: the stem and the suffix of the path's last part
PathName(path) == IF path.suffix = "" THEN <<path.stem>> ELSE <<path.stem, path.suffix>>

\* every file name the model knows, in the order sorted() gives
NameOrder == << [parent |-> "",   stem |-> "a", ext |-> ".json"],
                [parent |-> "",   stem |-> "b", ext |-> ".txt"],
                [parent |-> "s1", stem |-> "a", ext |-> ".json"],
                [parent |-> "s2", stem |-> "a", ext |-> ".json"] >>

Rank(name) == CHOOSE i \in 1..Len(NameOrder) : NameOrder[i] = name

RECURSIVE SelectRanks(_, _)
\* the entries of files from rank i on, by ascending rank
SelectRanks(files, i) ==
    IF i > Len(NameOrder) THEN <<>>
    ELSE LET here == { k \in 1..Len(files) : Rank(files[k].name) = i } IN
         (IF here = {} THEN <<>> ELSE <<files[CHOOSE k \in here : TRUE]>>)
         \o SelectRanks(files, i + 1)

\* sorted(path.rglob('*.json')): the files ending in .json, sorted
SortedRglob(files) ==
    SelectRanks(SelectSeq(files, LAMBDA e : e.name.ext = ".json"), 1)

\* which branch of iter_jsons_in_path a path takes
Kind(path) ==
    IF path.is_dir THEN "dir"
    ELSE IF path.suffix = ".zip" THEN "zip"
    ELSE IF path.is_file /\ path.suffix = ".json" THEN "file"
    ELSE "other"

\* the items a path's branch loops over, in its order
Listing(path) ==
    CASE Kind(path) = "dir"   -> SortedRglob(path.files)
      [] Kind(path) = "zip"   -> path.files
      [] Kind(path) = "file"  -> path.files
      [] Kind(path) = "other" -> <<>>

\* the id of an item with no uuid of its own
FallbackId(path, name) ==
    CASE Kind(path) = "dir"  -> Str(PathName(path) \o <<"/">> \o BaseName(name))
      [] Kind(path) = "zip"  -> Str(<<path.stem, "/">> \o MemberName(name))
      [] Kind(path) = "file" -> Str(PathName(path))

Failed(i) == [what |-> "Failed reading", entry |-> i]
Skipping == [what |-> "Skipping unsupported path type", entry |-> 0]

RECURSIVE GenNext(_, _, _)
\* the generator run from position p to its next yield (out.ok, the pair in
\* out.val) or to its end (StopIteration), with the diagnostics it prints
GenNext(path, p, d) ==
    IF Kind(path) = "other"
    THEN [pos |-> p, diags |-> Append(d, Skipping), out |-> Raise]
    ELSE IF p >= Len(Listing(path))
    THEN [pos |-> p, diags |-> d, out |-> Raise]
    ELSE LET e == Listing(path)[p + 1] IN
         IF Kind(path) = "zip" /\ e.name.ext # ".json"
         THEN GenNext(path, p + 1, d)
         ELSE LET r == ProcessItem(e.content, FallbackId(path, e.name)) IN
              IF r.ok
              THEN [pos |-> p + 1, diags |-> d,
                    out |-> Ok([entry |-> p + 1, id |-> r.val.id, doc |-> r.val.doc])]
              ELSE GenNext(path, p + 1, Append(d, Failed(p + 1)))

-----------------------------------------------------------------------------
(* The inputs of the extractor *)

\* a thread object with an id, one with an empty id, one without
ThreadT1 == Dict([uuid |-> Str(<<"t1">>)])

\* an item with every field, its own uuid and a thread uuid
FullItem ==
    Dict([uuid |-> Str(<<"u1">>), thread |-> ThreadT1,
          title |-> Str(<<"T1">>), text |-> Str(<<"x", "y">>),
          author |-> Str(<<"ann">>), published |-> Str(<<"2020-01-01">>),
          language |-> Str(<<"en">>), sentiment |-> Str(<<"pos">>),
          categories |-> List(<<Str(<<"c1">>)>>), url |-> Str(<<"http://h">>)])

\* the JSON values the items of a source parse to, and the corrupt item
ItemPool ==
    { Corrupt,
      List(<<>>),
      FullItem,
      Dict([uuid |-> Str(<<>>), thread |-> ThreadT1, title |-> Str(<<"T2">>)]),
      Dict([uuid |-> Str(<<"u2">>), thread |-> None]),
      Dict([thread |-> None, title |-> Str(<<"T3">>)]),
      Dict([thread |-> ThreadT1, text |-> Str(<<"z">>)]),
      EmptyDict }

\* the sequences of length n of distinct elements of 1..Len(NameOrder),
\* ascending or descending
OrderedRanks ==
    { r \in UNION { [1..n -> 1..Len(NameOrder)] : n \in 0..MaxFiles } :
        \/ \A i \in 1..(Len(r) - 1) : r[i] < r[i + 1]
        \/ \A i \in 1..(Len(r) - 1) : r[i] > r[i + 1] }

\* the contents of a directory or an archive: named items, as stored
FileLists ==
    UNION { { [i \in 1..Len(r) |-> [name |-> NameOrder[r[i]], content |-> c[i]]] :
              c \in [1..Len(r) -> ItemPool] } : r \in OrderedRanks }

Directories ==
    { [is_dir |-> TRUE, is_file |-> FALSE, stem |-> "news", suffix |-> "",
       files |-> f] : f \in FileLists }

Archives ==
    { [is_dir |-> FALSE, is_file |-> TRUE, stem |-> "arch", suffix |-> ".zip",
       files |-> f] : f \in FileLists }

SingleFiles ==
    { [is_dir |-> FALSE, is_file |-> TRUE, stem |-> "one", suffix |-> ".json",
       files |-> <<[name |-> [parent |-> "", stem |-> "one", ext |-> ".json"],
                    content |-> c]>>] : c \in ItemPool }

Unsupported ==
    { [is_dir |-> FALSE, is_file |-> f, stem |-> "notes", suffix |-> s, files |-> <<>>] :
        f \in BOOLEAN, s \in {".txt", ".json"} }

ExtractSources == Directories \cup Archives \cup SingleFiles \cup
                  { p \in Unsupported : Kind(p) = "other" }

-----------------------------------------------------------------------------
(* The state the other subsystems rest in *)

NoIndex == [set |-> FALSE, idx |-> <<>>, pairs |-> <<>>, run |-> 0]

LoaderIdle ==
    /\ batch_size = 0 /\ actions = <<>> /\ total = 0 /\ submissions = <<>>
    /\ index = <<>> /\ index0 = <<>> /\ runs = 0 /\ once = NoIndex

SearchOff ==
    /\ spc = "off" /\ service = None /\ query_result = None
    /\ search_diag = <<>> /\ printed = <<>> /\ display_raised = FALSE

-----------------------------------------------------------------------------
(* Extraction alone: a caller that enumerates iter_jsons_in_path(source) *)

InitExtract ==
    /\ source \in ExtractSources
    /\ pos = 0 /\ yielded = <<>> /\ diags = <<>>
    /\ pc = "iterating"
    /\ LoaderIdle /\ SearchOff

\* next() on the generator: the next pair, or the end of the enumeration
IterNext ==
    /\ pc = "iterating"
    /\ LET g == GenNext(source, pos, diags) IN
         /\ pos' = g.pos
         /\ diags' = g.diags
         /\ yielded' = IF g.out.ok THEN Append(yielded, g.out.val) ELSE yielded
         /\ pc' = IF g.out.ok THEN "iterating" ELSE "exhausted"
    /\ UNCHANGED <<source, batch_size, actions, total, submissions, index,
                   index0, runs, once, search_vars>>

NextExtract == IterNext

SpecExtract == InitExtract /\ [][NextExtract]_vars

-----------------------------------------------------------------------------
(* The batch loader: bulk_index, fed by iter_jsons_in_path(source) *)

INDEX_NAME == "esindex-v1.0"

\* the write action bulk_index appends for a pair
Action(pair) == [index_name |-> INDEX_NAME, id |-> pair.id, source |-> pair.doc]

\* ShouldSubmit with > for >=: a batch is submitted one item late
ShouldSubmitLate(n, B) == n > B

\* if len(actions) >= batch_size
ShouldSubmit(n, B) == n >= B

\* HasRemainder always false: the last, smaller batch is dropped
HasRemainderNever(acts) == FALSE

\* if actions: after the stream has ended
HasRemainder(acts) == acts # <<>>

\* AfterBulk with the error swallowed: the run goes on after a failed submission
AfterBulkSwallow(ok, acts, tot, next_pc) ==
    IF ok THEN [pc |-> next_pc, total |-> tot + Len(acts), actions |-> <<>>]
    ELSE [pc |-> next_pc, total |-> tot, actions |-> acts]

\* what follows helpers.bulk(es_client, actions): the total grows and the
\* accumulator is reset, or the exception leaves bulk_index (nothing catches it)
AfterBulk(ok, acts, tot, next_pc) ==
    IF ok THEN [pc |-> next_pc, total |-> tot + Len(acts), actions |-> <<>>]
    ELSE [pc |-> "failed", total |-> tot, actions |-> acts]

\* the index service stores one write: the document replaces what the id held
Put(idx, act) ==
    [x \in DOMAIN idx \cup {act.id} |-> IF x = act.id THEN act.source ELSE idx[x]]

RECURSIVE WriteSome(_, _, _, _)
\* the index after the writes of acts at the positions of S, from i on, in order
WriteSome(idx, acts, S, i) ==
    IF i > Len(acts) THEN idx
    ELSE WriteSome(IF i \in S THEN Put(idx, acts[i]) ELSE idx, acts, S, i + 1)

\* the index after every write of acts
Write(idx, acts) == WriteSome(idx, acts, 1..Len(acts), 1)

\* what one helpers.bulk call can do: succeed, with every action written; or
\* raise, after the service has written any of the actions (helpers.bulk
\* raises once the service has answered a chunk with some item refused, or
\* when the transport fails, whether or not the request was applied)
BulkOutcomes(idx, acts) ==
    { [ok |-> TRUE, index |-> Write(idx, acts)] } \cup
    { [ok |-> FALSE, index |-> WriteSome(idx, acts, S, 1)] : S \in SUBSET (1..Len(acts)) }

\* the items of the sources a load reads
LoadPool ==
    { Dict([uuid |-> Str(<<"u1">>), title |-> Str(<<"T1">>)]),
      Dict([uuid |-> Str(<<"u1">>), title |-> Str(<<"T2">>)]),
      Dict([uuid |-> Str(<<>>), text |-> Str(<<"x">>)]),
      Corrupt }

\* the contents of up to MaxItems members, at most one of them corrupt
LoadContents ==
    UNION { { c \in [1..n -> LoadPool] :
                Cardinality({ i \in 1..n : c[i] = Corrupt }) <= 1 } : n \in 0..MaxItems }

\* archives of up to MaxItems members
LoadSources ==
    { [is_dir |-> FALSE, is_file |-> TRUE, stem |-> "arch", suffix |-> ".zip",
       files |-> [i \in 1..Len(c) |->
                    [name |-> [parent |-> "", stem |-> ToString(i), ext |-> ".json"],
                     content |-> c[i]]]] : c \in LoadContents }

Init ==
    /\ source \in LoadSources
    /\ pos = 0 /\ yielded = <<>> /\ diags = <<>>
    /\ pc = "idle"
    /\ LoaderIdle /\ SearchOff

\* a caller runs bulk_index(es, INDEX_NAME, iter_jsons_in_path(source), B)
StartRun ==
    /\ pc \in {"idle", "done", "failed"}
    /\ runs < MaxRuns
    /\ \E B \in 1..MaxBatch : batch_size' = B
    /\ pos' = 0 /\ yielded' = <<>> /\ diags' = <<>>
    /\ actions' = <<>> /\ total' = 0 /\ submissions' = <<>>
    /\ index0' = index
    /\ runs' = runs + 1
    /\ pc' = "loop"
    /\ UNCHANGED <<source, index, once, search_vars>>

\* the index after the first run that returned, and that run's pairs
Returned(idx) ==
    IF once.set THEN once
    ELSE [set |-> TRUE, idx |-> idx, pairs |-> yielded, run |-> runs]

\* one turn of the for loop: the next pair is appended; or the stream has
\* ended, and with an empty accumulator bulk_index returns the total
Pull ==
    /\ pc = "loop"
    /\ LET g == GenNext(source, pos, diags) IN
         /\ pos' = g.pos
         /\ diags' = g.diags
         /\ IF g.out.ok
            THEN /\ yielded' = Append(yielded, g.out.val)
                 /\ actions' = Append(actions, Action(g.out.val))
                 /\ pc' = IF ShouldSubmit(Len(actions'), batch_size) THEN "flush" ELSE "loop"
                 /\ once' = once
            ELSE /\ yielded' = yielded
                 /\ actions' = actions
                 /\ pc' = IF HasRemainder(actions) THEN "tail" ELSE "done"
                 /\ once' = IF HasRemainder(actions) THEN once ELSE Returned(index)
    /\ UNCHANGED <<source, batch_size, total, submissions, index, index0, runs,
                   search_vars>>

\* helpers.bulk on a full accumulator, inside the loop
Flush ==
    /\ pc = "flush"
    /\ \E out \in BulkOutcomes(index, actions) :
         LET after == AfterBulk(out.ok, actions, total, "loop") IN
           /\ index' = out.index
           /\ submissions' = Append(submissions, [acts |-> actions, ok |-> out.ok])
           /\ pc' = after.pc
           /\ total' = after.total
           /\ actions' = after.actions
    /\ UNCHANGED <<source, pos, yielded, diags, batch_size, index0, runs, once,
                   search_vars>>

\* helpers.bulk on the remainder, after the loop; then bulk_index returns
FlushRemainder ==
    /\ pc = "tail"
    /\ \E out \in BulkOutcomes(index, actions) :
         LET after == AfterBulk(out.ok, actions, total, "done") IN
           /\ index' = out.index
           /\ submissions' = Append(submissions, [acts |-> actions, ok |-> out.ok])
           /\ pc' = after.pc
           /\ total' = after.total
           /\ actions' = after.actions
           /\ once' = IF after.pc = "done" THEN Returned(out.index) ELSE once
    /\ UNCHANGED <<source, pos, yielded, diags, batch_size, index0, runs,
                   search_vars>>

Next == StartRun \/ Pull \/ Flush \/ FlushRemainder

Spec == Init /\ [][Next]_vars

-----------------------------------------------------------------------------
(* Properties of the extractor *)

\* the positions of the listing that are items: all of them, but for the
\* members of an archive that do not end in .json
ItemEntries ==
    { i \in 1..Len(Listing(source)) :
        Kind(source) = "zip" => Listing(source)[i].name.ext = ".json" }

ContentOf(i) == Listing(source)[i].content

\* the items that read and parse as JSON, and those that do not
WellFormed == { i \in ItemEntries : ContentOf(i) # Corrupt }
Failing == { i \in ItemEntries : ContentOf(i) = Corrupt }

HasKey(x, key) == x.t = "dict" /\ key \in DOMAIN x.v

\* the item has a top-level uuid field
HasUuidField(i) == HasKey(ContentOf(i), "uuid")

\* the item has a top-level uuid field whose value is truthy
HasTruthyUuid(i) == HasUuidField(i) /\ Truthy(ContentOf(i).v["uuid"])

YieldedEntries == { yielded[j].entry : j \in 1..Len(yielded) }

\* C2, as claimed: the id of every pair yielded from an item with a top-level
\* uuid field is that field's value, whatever the value, falsy values included.
C2_IdIsUuidField ==
    \A j \in 1..Len(yielded) :
        HasUuidField(yielded[j].entry) =>
            yielded[j].id = ContentOf(yielded[j].entry).v["uuid"]

\* C2, amended: every visited item with a top-level uuid field whose value is
\* truthy is yielded, with that value as its id and as its document's uuid,
\* in a directory, an archive and a single file, whatever its thread field is.
C2_IdIsTruthyUuid ==
    \A i \in ItemEntries :
        (i <= pos /\ HasTruthyUuid(i)) =>
            \E j \in 1..Len(yielded) :
                /\ yielded[j].entry = i
                /\ yielded[j].id = ContentOf(i).v["uuid"]
                /\ yielded[j].doc.v["uuid"] = ContentOf(i).v["uuid"]

\* C2's case: an archive member with its own uuid and a thread uuid was yielded
C2_Witness ==
    /\ Kind(source) = "zip"
    /\ \E j \in 1..Len(yielded) :
          /\ ContentOf(yielded[j].entry) = FullItem
          /\ yielded[j].id = Str(<<"u1">>)

\* the value the document of item i should carry for field k
SourceValue(i, k) ==
    IF HasKey(ContentOf(i), k) THEN ContentOf(i).v[k] ELSE None

\* C3: once the enumeration ends, there is exactly one pair per item that
\* parses as JSON, whatever the shape of the JSON value; its document carries
\* the item's value of each field verbatim, and None for a field it lacks.
C3_OnePairPerWellFormedItem ==
    pc = "exhausted" =>
        /\ Len(yielded) = Cardinality(WellFormed)
        /\ \A i \in WellFormed :
              \E j \in 1..Len(yielded) :
                  /\ yielded[j].entry = i
                  /\ \A k \in DocFields : yielded[j].doc.v[k] = SourceValue(i, k)

\* C4: once the enumeration of a directory or an archive ends, the pairs
\* yielded are those of the valid items, in visiting order, and there is one
\* diagnostic per item whose read or parse fails, and none else.
C4_PartialFailureIsolation ==
    (pc = "exhausted" /\ Kind(source) \in {"dir", "zip"}) =>
        /\ YieldedEntries = WellFormed
        /\ Len(yielded) = Cardinality(WellFormed)
        /\ \A j \in 1..(Len(yielded) - 1) : yielded[j].entry < yielded[j + 1].entry
        /\ { diags[j] : j \in 1..Len(diags) } = { Failed(i) : i \in Failing }
        /\ Len(diags) = Cardinality(Failing)

\* every id the extractor yields is truthy, whatever the source
YieldedIdsTruthy == \A j \in 1..Len(yielded) : Truthy(yielded[j].id)

\* the item has neither a top-level uuid field nor a thread with a uuid field
LacksBothIds(i) ==
    /\ ContentOf(i).t = "dict"
    /\ ~HasKey(ContentOf(i), "uuid")
    /\ (HasKey(ContentOf(i), "thread") =>
          (ContentOf(i).v["thread"].t = "dict"
             /\ ~HasKey(ContentOf(i).v["thread"], "uuid")))

\* C10: two distinct items of one enumeration that both lack a top-level and
\* a thread identifier are yielded with different ids.
C10_FallbackIdsDiffer ==
    \A j, k \in 1..Len(yielded) :
        (j # k /\ LacksBothIds(yielded[j].entry) /\ LacksBothIds(yielded[k].entry))
            => yielded[j].id # yielded[k].id

-----------------------------------------------------------------------------
(* Properties of the batch loader *)

Ceil(n, B) == (n + B - 1) \div B

Sizes == [i \in 1..Len(submissions) |-> Len(submissions[i].acts)]

RECURSIVE SumSizes(_)
\* the number of actions in the first k submissions
SumSizes(k) == IF k = 0 THEN 0 ELSE SumSizes(k - 1) + Sizes[k]

\* C1: when a run in which no submission failed returns, for a stream of n
\* pairs and a batch size B >= 1 it has made ceil(n/B) submissions, each but
\* the last of B actions, the last of n - B*(ceil(n/B)-1) > 0 actions, and the
\* total it returns is n.
C1_BatchSizes ==
    pc = "done" =>
        LET n == Len(yielded)
            B == batch_size
            k == Len(submissions)
        IN /\ k = Ceil(n, B)
           /\ \A i \in 1..(k - 1) : Sizes[i] = B
           /\ k > 0 => (Sizes[k] = n - B * (k - 1) /\ Sizes[k] > 0)
           /\ total = n

\* C1's case: a stream of 2B+1 pairs, loaded in batches of B = 2
C1_Witness ==
    /\ pc = "done"
    /\ batch_size = 2
    /\ Len(yielded) = 2 * batch_size + 1
    /\ Sizes = <<2, 2, 1>>
    /\ total = 5

RECURSIVE Committed(_, _)
\* the index after the first k submissions of the run were written in full
Committed(idx, k) ==
    IF k = 0 THEN idx ELSE Write(Committed(idx, k - 1), submissions[k].acts)

\* what holds of a failed run besides the contents of the index: only the last
\* submission of a run can have failed (a failed batch is not retried and
\* nothing is submitted after it); the run then ends with the error, no item
\* was pulled past the failed batch, and the total counts the batches before
FailureEndsRun ==
    /\ \A i \in 1..(Len(submissions) - 1) : submissions[i].ok
    /\ pc = "failed" <=> (submissions # <<>> /\ ~submissions[Len(submissions)].ok)
    /\ pc = "failed" =>
          /\ Len(yielded) = SumSizes(Len(submissions))
          /\ yielded # <<>>
          /\ pos = yielded[Len(yielded)].entry \/ pos = Len(Listing(source))
          /\ total = SumSizes(Len(submissions) - 1)

C9_ReindexIdempotent ==
    /\ \A j \in 1..Len(yielded) : Truthy(yielded[j].id)
    /\ (pc = "done" /\ once.set) =>
          /\ yielded = once.pairs
          /\ index = once.idx

\* C9's case: a second run has returned over a source with two items of the
\* same id and different documents
C9_Witness ==
    /\ pc = "done"
    /\ once.set /\ once.run < runs
    /\ \E j, k \in 1..Len(yielded) :
          yielded[j].id = yielded[k].id /\ yielded[j].doc # yielded[k].doc

-----------------------------------------------------------------------------
(* The query engine and the result presenter *)

\* text[:200] and len(text) > 200
SnippetLen == 200

\* an exception that left the function
Propagated == [t |-> "exception", v |-> <<>>]

\* search_boolean_es without its except clause: the service's error gets out
search_boolean_es_reraise(svc) ==
    IF svc.raises
    THEN [ret |-> Propagated, diag |-> <<"Error querying Elasticsearch">>]
    ELSE [ret |-> svc.res, diag |-> <<>>]

\* search_boolean_es: the service's answer, or None and a diagnostic when
\* es_client.search raises
search_boolean_es(svc) ==
    IF svc.raises
    THEN [ret |-> None, diag |-> <<"Error querying Elasticsearch">>]
    ELSE [ret |-> svc.res, diag |-> <<>>]

RECURSIVE ReprList(_)
ReprList(items) ==
    IF items = <<>> THEN <<>>
    ELSE <<"'">> \o items[1].v \o <<"'">>
         \o (IF Len(items) > 1 THEN <<", ">> ELSE <<>>) \o ReprList(Tail(items))

\* str(x), as an f-string formats a value
Fmt(x) ==
    CASE x.t = "none" -> <<"None">>
      [] x.t = "str"  -> x.v
      [] x.t = "int"  -> <<ToString(x.v)>>
      [] x.t = "list" -> <<"[">> \o ReprList(x.v) \o <<"]">>

\* one printed line: the literal part, the formatted part, and the hit whose
\* turn of the loop printed it (0 outside the loop)
Line(i, label, text) == [hit |-> i, label |-> label, text |-> text]

\* x[:n] of a string
Slice(str, n) == SubSeq(str, 1, IF Len(str) < n THEN Len(str) ELSE n)

\* text[:200] + ("..." if len(text) > 200 else "")
Snippet(text) ==
    Slice(text, SnippetLen) \o (IF Len(text) > SnippetLen THEN <<"...">> ELSE <<>>)

\* the lines of one hit up to its title
HitHead(i, hit) ==
    << Line(i, "Result #", <<ToString(i)>>),
       Line(i, "Score : ", Fmt(hit.v["_score"])),
       Line(i, "ID    : ", Fmt(hit.v["_id"])),
       Line(i, "Title : ", Fmt(Get(hit.v["_source"], "title", Str(<<"(no title)">>)))) >>

\* the lines of one hit from its snippet on
HitRest(i, hit, text) ==
    LET src == hit.v["_source"] IN
    << Line(i, "Snippet:\n", Snippet(text.v)),
       Line(i, "Author: ", Fmt(Get(src, "author", Str(<<"(no author)">>)))),
       Line(i, "Published: ", Fmt(Get(src, "published", Str(<<"(no date)">>)))),
       Line(i, "Language: ", Fmt(Get(src, "language", Str(<<"(no language)">>)))),
       Line(i, "URL: ", Fmt(Get(src, "url", Str(<<"(no url)">>)))),
       Line(i, "Categories: ", Fmt(Get(src, "categories", Str(<<"(no categories)">>)))),
       Line(i, "-" , <<>>) >>

RECURSIVE DisplayHits(_, _, _)
\* the for loop over the hits from the i-th on: what it prints, and whether it
\* raises (text[:200] of a text that is None is a TypeError)
DisplayHits(hits, i, out) ==
    IF i > Len(hits) THEN [printed |-> out, raised |-> FALSE]
    ELSE LET hit == hits[i]
             text == Get(hit.v["_source"], "text", Str(<<>>))
         IN IF text.t # "str"
            THEN [printed |-> out \o HitHead(i, hit), raised |-> TRUE]
            ELSE DisplayHits(hits, i + 1, out \o HitHead(i, hit) \o HitRest(i, hit, text))

NoResults == Line(0, "No results found.", <<>>)

\* display_search_results
display_search_results(search_results) ==
    IF ~Truthy(search_results)
    THEN [printed |-> <<NoResults>>, raised |-> FALSE]
    ELSE LET hits == search_results.v["hits"]
             tot == IF hits.v["total"].t = "dict" THEN hits.v["total"].v["value"]
                    ELSE hits.v["total"]
         IN DisplayHits(hits.v["hits"].v, 1,
                        << Line(0, "=", <<>>), Line(0, "Query: ", <<"q">>),
                           Line(0, "Total hits: ", Fmt(tot)), Line(0, "=", <<>>) >>)

Alphabet == <<"a", "b", "c", "d", "e", "f", "g">>

\* a text of n characters
Text(n) == Str([i \in 1..n |-> Alphabet[(i % Len(Alphabet)) + 1]])

\* the document the extractor builds from an item with no field at all
BareDoc == ProcessItem(EmptyDict, Str(<<"news", "/", "a", ".json">>)).val.doc

\* the documents stored in the index that a hit can carry
HitSources ==
    { Project(Dict([title |-> Str(<<"T1">>), text |-> Text(n), author |-> Str(<<"ann">>),
                    published |-> Str(<<"2020-01-01">>), language |-> Str(<<"en">>),
                    url |-> Str(<<"http://h">>), categories |-> List(<<Str(<<"c1">>)>>)]),
              Str(<<"u", ToString(n)>>)) : n \in {150, SnippetLen, SnippetLen + 1, 250} }
    \cup { Project(Dict([text |-> Text(2)]), Str(<<"u2">>)),
           Dict([title |-> Str(<<"T2">>)]),
           BareDoc }

\* a hit: the stored document under its id, with a score
Hit(src) ==
    Dict(("_score" :> Num(1)) @@ ("_id" :> Get(src, "uuid", Str(<<"k">>)))
         @@ ("_source" :> src))

\* the result sets the service can answer with: up to MaxHits hits, and the
\* total as a number or as an object with a value
Envelopes ==
    { Dict([hits |-> Dict([total |-> tot, hits |-> List([i \in 1..n |-> Hit(h[i])])])]) :
        n \in 0..MaxHits, h \in [1..MaxHits -> HitSources],
        tot \in {Num(5), Dict([value |-> Num(5)])} }

Services == { [raises |-> TRUE, res |-> None] } \cup
            { [raises |-> FALSE, res |-> e] : e \in Envelopes }

\* no path is being read while the index is queried
NoSource == [is_dir |-> FALSE, is_file |-> FALSE, stem |-> "notes", suffix |-> ".txt",
             files |-> <<>>]

InitSearch ==
    /\ source = NoSource
    /\ pos = 0 /\ yielded = <<>> /\ diags = <<>>
    /\ pc = "off"
    /\ LoaderIdle
    /\ spc = "start"
    /\ service \in Services
    /\ query_result = None /\ search_diag = <<>> /\ printed = <<>>
    /\ display_raised = FALSE

\* a caller runs search_boolean_es(es, query_text)
Search ==
    /\ spc = "start"
    /\ LET r == search_boolean_es(service) IN
         /\ query_result' = r.ret
         /\ search_diag' = r.diag
    /\ spc' = "searched"
    /\ UNCHANGED <<ingest_vars, service, printed, display_raised>>

\* the caller hands what it got to display_search_results
Display ==
    /\ spc = "searched"
    /\ query_result # Propagated
    /\ LET d == display_search_results(query_result) IN
         /\ printed' = d.printed
         /\ display_raised' = d.raised
    /\ spc' = "displayed"
    /\ UNCHANGED <<ingest_vars, service, query_result, search_diag>>

NextSearch == Search \/ Display

SpecSearch == InitSearch /\ [][NextSearch]_vars

-----------------------------------------------------------------------------
(* Properties of the query engine and the result presenter *)

\* the hits of the result set handed to the presenter
Hits == IF Truthy(query_result) THEN query_result.v["hits"].v["hits"].v ELSE <<>>

\* the lines printed in the turn of hit i with the given literal part
LinesOf(i, label) ==
    { j \in 1..Len(printed) : printed[j].hit = i /\ printed[j].label = label }

\* C6: search_boolean_es never lets an error out: when the service raises it
\* prints a diagnostic and returns None; when the service answers it returns
\* the answer unchanged, zero hits included; so None is returned only on
\* failure, and only then does the presenter print "No results found.".
C6_SearchFailureIsNull ==
    spc # "start" =>
        /\ query_result # Propagated
        /\ service.raises => (query_result = None /\ Len(search_diag) = 1)
        /\ ~service.raises => (query_result = service.res /\ search_diag = <<>>)
        /\ query_result = None <=> service.raises
        /\ spc = "displayed" => (printed = <<NoResults>> <=> service.raises)

\* C6's case: the service raised, None came back and was displayed
C6_Witness ==
    /\ spc = "displayed"
    /\ service.raises
    /\ query_result = None
    /\ Len(search_diag) = 1
    /\ printed = <<NoResults>>

\* the text of hit i as the presenter reads it
TextOf(i) == Get(Hits[i].v["_source"], "text", Str(<<>>))

\* the snippet the claim describes for a text
ClaimedSnippet(text) ==
    IF Len(text) > 200 THEN SubSeq(text, 1, 200) \o <<"...">> ELSE text

\* C7: for every hit of a result set that is not None, the snippet printed is
\* the first 200 characters of its text followed by "..." when the text is
\* longer than 200 characters, and the whole text with no "..." when it has
\* at most 200; the hits are numbered from 1 in the order of the result set.
C7_SnippetTruncation ==
    spc = "displayed" =>
        \A i \in 1..Len(Hits) :
            TextOf(i).t = "str" =>
                /\ Cardinality(LinesOf(i, "Snippet:\n")) = 1
                /\ \A j \in LinesOf(i, "Snippet:\n") :
                      printed[j].text = ClaimedSnippet(TextOf(i).v)
                /\ Cardinality(LinesOf(i, "Result #")) = 1
                /\ \A j \in LinesOf(i, "Result #") : printed[j].text = <<ToString(i)>>

\* the hits the loop reaches and completes: those with no hit up to them
\* whose text is not a string
Shown == { i \in 1..Len(Hits) : \A j \in 1..i : TextOf(j).t = "str" }

\* what the presenter does get right: every hit the loop completes has the
\* snippet C7 describes, under its own id, and the turns of the loop print in
\* the order of the result set, numbered from 1
SnippetOfShownHits ==
    spc = "displayed" =>
        /\ \A i \in Shown :
              /\ Cardinality(LinesOf(i, "Snippet:\n")) = 1
              /\ \A j \in LinesOf(i, "Snippet:\n") :
                    printed[j].text = ClaimedSnippet(TextOf(i).v)
              /\ \A j \in LinesOf(i, "ID    : ") :
                    printed[j].text = Fmt(Hits[i].v["_id"])
        /\ LET results == SelectSeq(printed, LAMBDA l : l.label = "Result #") IN
              /\ \A n \in 1..Len(results) : results[n].text = <<ToString(n)>>
              /\ \A n \in 1..Len(results) : results[n].hit = n
              /\ \A i \in Shown : i <= Len(results)
        /\ \A j, k \in 1..Len(printed) : j < k => printed[j].hit <= printed[k].hit

\* texts of 250 and of exactly 200 characters were displayed
SnippetOfShownHitsReached ==
    /\ spc = "displayed"
    /\ Shown = {1, 2}
    /\ Len(TextOf(1).v) = 250
    /\ Len(TextOf(2).v) = 200
    /\ \E j \in LinesOf(1, "Snippet:\n") : Len(printed[j].text) = 201

\* the placeholder of each field the presenter shows
Placeholder ==
    [title |-> <<"(no title)">>, author |-> <<"(no author)">>,
     published |-> <<"(no date)">>, language |-> <<"(no language)">>,
     url |-> <<"(no url)">>, categories |-> <<"(no categories)">>]

FieldLabel ==
    [title |-> "Title : ", author |-> "Author: ", published |-> "Published: ",
     language |-> "Language: ", url |-> "URL: ", categories |-> "Categories: "]

\* the field is absent from the stored document: the key is missing, or None
Absent(src, k) == Get(src, k, None) = None

\* C8: the presenter completes on every result set, and for every hit and
\* every field absent from its stored document (the key missing, or stored
\* as None) it shows the field's placeholder; for an absent text, a snippet
\* line is shown.
C8_PlaceholderWhenAbsent ==
    (spc = "displayed" /\ Truthy(query_result)) =>
        /\ ~display_raised
        /\ \A i \in 1..Len(Hits) :
              /\ \A k \in DOMAIN Placeholder :
                    Absent(Hits[i].v["_source"], k) =>
                        /\ LinesOf(i, FieldLabel[k]) # {}
                        /\ \A j \in LinesOf(i, FieldLabel[k]) :
                              printed[j].text = Placeholder[k]
              /\ Absent(Hits[i].v["_source"], "text") => LinesOf(i, "Snippet:\n") # {}

=============================================================================
